---- MODULE Spec2Model ----
(***************************************************************************)
(* Model of @toolbuilder/list (src/src/list.js): a mutable doubly linked   *)
(* list with two sentinel nodes.  The JavaScript heap is a sequence of     *)
(* Node records; a node's identity is its index in that sequence, so a     *)
(* node is never confused with another one and identities are never        *)
(* reused.  Every method of List is an operator from a program state       *)
(* [heap, lists] to an outcome [heap, lists, retNode, retValue, threw],    *)
(* written statement by statement after the source.  gen is the generator  *)
(* object of a traversal the caller has begun and not yet dropped.         *)
(***************************************************************************)
EXTENDS Integers, Sequences, FiniteSets, TLC

VARIABLES heap, lists, hist, gen

vars == <<heap, lists, hist, gen>>

----------------------------------------------------------------------------
(* Bounds of the model *)

\* real (non-sentinel) nodes allocated during one behaviour
MaxNodes == 3

\* longest iterable handed to the constructor
MaxInit == 2

\* calls made after the constructor in the queue specification
MaxCalls == 5

\* values stored by callers
Values == {"A", "B"}

----------------------------------------------------------------------------
(* JavaScript values *)

\* the null reference
Null == 0

\* the undefined value, where a node handle is expected
Undefined == -1

\* new Node(prev, next, value)
Node(prev, next, value) == [prev |-> prev, next |-> next, value |-> value]

\* release that clears the value and leaves the links
release_keepsLinks(node) == [node EXCEPT !.value = "null"]

\* Node.release(): the node with all three fields cleared
release(node) == [node EXCEPT !.prev = Null, !.next = Null, !.value = "null"]

\* h is a reference to an object of the heap: reading a property of anything
\* else (null, undefined) throws a TypeError
IsNode(st, h) == h \in 1..Len(st.heap)

----------------------------------------------------------------------------
(* Outcomes of a call *)

ReturnNode(st, n) ==
  [heap |-> st.heap, lists |-> st.lists, retNode |-> n,
   retValue |-> "undefined", threw |-> FALSE]

ReturnValue(st, v) ==
  [heap |-> st.heap, lists |-> st.lists, retNode |-> Undefined,
   retValue |-> v, threw |-> FALSE]

Throw(st) ==
  [heap |-> st.heap, lists |-> st.lists, retNode |-> Undefined,
   retValue |-> "undefined", threw |-> TRUE]

StateOf(r) == [heap |-> r.heap, lists |-> r.lists]

----------------------------------------------------------------------------
(* Structural mutation: insertAfter, insertBefore, remove *)

\* insertAfter that puts the new node in front of the reference node
insertAfter_beforeRef(st, l, prevNode, value) ==
  IF ~IsNode(st, prevNode) THEN Throw(st)
  ELSE
    LET before == st.heap[prevNode].prev
        newNode == Len(st.heap) + 1
        h1 == Append(st.heap, Node(before, prevNode, value))
    IN IF ~IsNode(st, before) THEN Throw([st EXCEPT !.heap = h1])
       ELSE
         LET h2 == [h1 EXCEPT ![before].next = newNode]
             h3 == [h2 EXCEPT ![prevNode].prev = newNode]
         IN ReturnNode([heap |-> h3,
                        lists |-> [st.lists EXCEPT ![l].length = @ + 1]],
                       newNode)

\* insertAfter without the statement nextNode.prev = newNode
insertAfter_noBackLink(st, l, prevNode, value) ==
  IF ~IsNode(st, prevNode) THEN Throw(st)
  ELSE
    LET nextNode == st.heap[prevNode].next
        newNode == Len(st.heap) + 1
        h1 == Append(st.heap, Node(prevNode, nextNode, value))
        h2 == [h1 EXCEPT ![prevNode].next = newNode]
    IN ReturnNode([heap |-> h2,
                   lists |-> [st.lists EXCEPT ![l].length = @ + 1]],
                  newNode)

\* insertAfter that makes the new node's next the reference node:
\* new Node(prevNode, prevNode, value)
insertAfter_nextIsPrev(st, l, prevNode, value) ==
  IF ~IsNode(st, prevNode) THEN Throw(st)
  ELSE
    LET nextNode == st.heap[prevNode].next
        newNode == Len(st.heap) + 1
        h1 == Append(st.heap, Node(prevNode, prevNode, value))
        h2 == [h1 EXCEPT ![prevNode].next = newNode]
    IN IF ~IsNode(st, nextNode) THEN Throw([st EXCEPT !.heap = h2])
       ELSE
         LET h3 == [h2 EXCEPT ![nextNode].prev = newNode]
         IN ReturnNode([heap |-> h3,
                        lists |-> [st.lists EXCEPT ![l].length = @ + 1]],
                       newNode)

insertAfter(st, l, prevNode, value) ==
  IF ~IsNode(st, prevNode) THEN Throw(st)
  ELSE
    LET nextNode == st.heap[prevNode].next
        newNode == Len(st.heap) + 1
        h1 == Append(st.heap, Node(prevNode, nextNode, value))
        h2 == [h1 EXCEPT ![prevNode].next = newNode]
    IN IF ~IsNode(st, nextNode) THEN Throw([st EXCEPT !.heap = h2])
       ELSE
         LET h3 == [h2 EXCEPT ![nextNode].prev = newNode]
         IN ReturnNode([heap |-> h3,
                        lists |-> [st.lists EXCEPT ![l].length = @ + 1]],
                       newNode)

\* insertBefore that puts the new node behind the reference node
insertBefore_afterRef(st, l, nextNode, value) ==
  insertAfter(st, l, nextNode, value)

\* insertBefore without the statement prevNode.next = newNode
insertBefore_noForwardLink(st, l, nextNode, value) ==
  IF ~IsNode(st, nextNode) THEN Throw(st)
  ELSE
    LET prevNode == st.heap[nextNode].prev
        newNode == Len(st.heap) + 1
        h1 == Append(st.heap, Node(prevNode, nextNode, value))
        h3 == [h1 EXCEPT ![nextNode].prev = newNode]
    IN ReturnNode([heap |-> h3,
                   lists |-> [st.lists EXCEPT ![l].length = @ + 1]],
                  newNode)

insertBefore(st, l, nextNode, value) ==
  IF ~IsNode(st, nextNode) THEN Throw(st)
  ELSE
    LET prevNode == st.heap[nextNode].prev
        newNode == Len(st.heap) + 1
        h1 == Append(st.heap, Node(prevNode, nextNode, value))
    IN IF ~IsNode(st, prevNode) THEN Throw([st EXCEPT !.heap = h1])
       ELSE
         LET h2 == [h1 EXCEPT ![prevNode].next = newNode]
             h3 == [h2 EXCEPT ![nextNode].prev = newNode]
         IN ReturnNode([heap |-> h3,
                        lists |-> [st.lists EXCEPT ![l].length = @ + 1]],
                       newNode)

\* remove that returns quietly when it is given no node
remove_ignoresMissing(st, l, node) ==
  IF ~IsNode(st, node) THEN ReturnValue(st, "undefined")
  ELSE
    LET prevNode == st.heap[node].prev
        nextNode == st.heap[node].next
    IN IF ~IsNode(st, prevNode) THEN Throw(st)
       ELSE
         LET h1 == [st.heap EXCEPT ![prevNode].next = nextNode]
         IN IF ~IsNode(st, nextNode) THEN Throw([st EXCEPT !.heap = h1])
            ELSE
              LET h2 == [h1 EXCEPT ![nextNode].prev = prevNode]
                  h3 == [h2 EXCEPT ![node] = release(h2[node])]
              IN ReturnValue([heap |-> h3,
                              lists |-> [st.lists EXCEPT ![l].length = @ - 1]],
                             "undefined")

\* remove without the statement nextNode.prev = prevNode
remove_noBackRelink(st, l, node) ==
  IF ~IsNode(st, node) THEN Throw(st)
  ELSE
    LET prevNode == st.heap[node].prev
        nextNode == st.heap[node].next
    IN IF ~IsNode(st, prevNode) THEN Throw(st)
       ELSE
         LET h1 == [st.heap EXCEPT ![prevNode].next = nextNode]
             h3 == [h1 EXCEPT ![node] = release(h1[node])]
         IN ReturnValue([heap |-> h3,
                         lists |-> [st.lists EXCEPT ![l].length = @ - 1]],
                        "undefined")

\* remove without the statement --this.length
remove_noDecrement(st, l, node) ==
  IF ~IsNode(st, node) THEN Throw(st)
  ELSE
    LET prevNode == st.heap[node].prev
        nextNode == st.heap[node].next
    IN IF ~IsNode(st, prevNode) THEN Throw(st)
       ELSE
         LET h1 == [st.heap EXCEPT ![prevNode].next = nextNode]
         IN IF ~IsNode(st, nextNode) THEN Throw([st EXCEPT !.heap = h1])
            ELSE
              LET h2 == [h1 EXCEPT ![nextNode].prev = prevNode]
                  h3 == [h2 EXCEPT ![node] = release(h2[node])]
              IN ReturnValue([heap |-> h3, lists |-> st.lists], "undefined")

\* remove that releases the successor instead of the node: nextNode.release()
remove_releasesNext(st, l, node) ==
  IF ~IsNode(st, node) THEN Throw(st)
  ELSE
    LET prevNode == st.heap[node].prev
        nextNode == st.heap[node].next
    IN IF ~IsNode(st, prevNode) THEN Throw(st)
       ELSE
         LET h1 == [st.heap EXCEPT ![prevNode].next = nextNode]
         IN IF ~IsNode(st, nextNode) THEN Throw([st EXCEPT !.heap = h1])
            ELSE
              LET h2 == [h1 EXCEPT ![nextNode].prev = prevNode]
                  h3 == [h2 EXCEPT ![nextNode] = release(h2[nextNode])]
              IN ReturnValue([heap |-> h3,
                              lists |-> [st.lists EXCEPT ![l].length = @ - 1]],
                             "undefined")

remove(st, l, node) ==
  IF ~IsNode(st, node) THEN Throw(st)
  ELSE
    LET prevNode == st.heap[node].prev
        nextNode == st.heap[node].next
    IN IF ~IsNode(st, prevNode) THEN Throw(st)
       ELSE
         LET h1 == [st.heap EXCEPT ![prevNode].next = nextNode]
         IN IF ~IsNode(st, nextNode) THEN Throw([st EXCEPT !.heap = h1])
            ELSE
              LET h2 == [h1 EXCEPT ![nextNode].prev = prevNode]
                  h3 == [h2 EXCEPT ![node] = release(h2[node])]
              IN ReturnValue([heap |-> h3,
                              lists |-> [st.lists EXCEPT ![l].length = @ - 1]],
                             "undefined")

----------------------------------------------------------------------------
(* Value-based mutation at the ends: push, pop, shift, unshift *)

\* push that inserts before the first node instead of before the tail
push_atFront(st, l, value) ==
  insertBefore(st, l, st.heap[st.lists[l].head].next, value)

push(st, l, value) == insertBefore(st, l, st.lists[l].tail, value)

\* pop that removes the node after the head instead of the one before the tail
pop_fromFront(st, l) ==
  IF st.lists[l].length > 0
  THEN LET firstN == st.heap[st.lists[l].head].next
       IN IF ~IsNode(st, firstN) THEN Throw(st)
          ELSE LET result == st.heap[firstN].value
                   r == remove(st, l, firstN)
               IN IF r.threw THEN r ELSE ReturnValue(StateOf(r), result)
  ELSE ReturnValue(st, "undefined")

\* pop that reads the value after the node was removed and released
pop_readAfterRemove(st, l) ==
  IF st.lists[l].length > 0
  THEN LET lastN == st.heap[st.lists[l].tail].prev
       IN IF ~IsNode(st, lastN) THEN Throw(st)
          ELSE LET r == remove(st, l, lastN)
               IN IF r.threw THEN r ELSE ReturnValue(StateOf(r), r.heap[lastN].value)
  ELSE ReturnValue(st, "undefined")

pop(st, l) ==
  IF st.lists[l].length > 0
  THEN LET lastN == st.heap[st.lists[l].tail].prev
       IN IF ~IsNode(st, lastN) THEN Throw(st)
          ELSE LET result == st.heap[lastN].value
                   r == remove(st, l, lastN)
               IN IF r.threw THEN r ELSE ReturnValue(StateOf(r), result)
  ELSE ReturnValue(st, "undefined")

\* shift that returns the first value and leaves its node in the list
shift_keepsNode(st, l) ==
  IF st.lists[l].length = 0 THEN ReturnValue(st, "undefined")
  ELSE LET node == st.heap[st.lists[l].head].next
       IN IF ~IsNode(st, node) THEN Throw(st)
          ELSE ReturnValue(st, st.heap[node].value)

\* shift that takes the node before the tail instead of the one after the head
shift_fromBack(st, l) ==
  IF st.lists[l].length = 0 THEN ReturnValue(st, "undefined")
  ELSE LET node == st.heap[st.lists[l].tail].prev
       IN IF ~IsNode(st, node) THEN Throw(st)
          ELSE LET value == st.heap[node].value
                   r == remove(st, l, node)
               IN IF r.threw THEN r ELSE ReturnValue(StateOf(r), value)

shift(st, l) ==
  IF st.lists[l].length = 0 THEN ReturnValue(st, "undefined")
  ELSE LET node == st.heap[st.lists[l].head].next
       IN IF ~IsNode(st, node) THEN Throw(st)
          ELSE LET value == st.heap[node].value
                   r == remove(st, l, node)
               IN IF r.threw THEN r ELSE ReturnValue(StateOf(r), value)

\* unshift that always inserts before the tail
unshift_atTail(st, l, value) == insertBefore(st, l, st.lists[l].tail, value)

unshift(st, l, value) ==
  LET firstN == IF st.lists[l].length = 0
                THEN st.lists[l].tail
                ELSE st.heap[st.lists[l].head].next
  IN insertBefore(st, l, firstN, value)

----------------------------------------------------------------------------
(* Construction: new List(iterable), List.from(iterable), List.of(...values) *)

\* the constructor's loop putting each value at the front
RECURSIVE PushEach_atFront(_, _, _)
PushEach_atFront(st, l, items) ==
  IF items = <<>> THEN st
  ELSE PushEach_atFront(StateOf(unshift(st, l, Head(items))), l, Tail(items))

\* the for-of loop of the constructor: push each value of the iterable in order
RECURSIVE PushEach(_, _, _)
PushEach(st, l, items) ==
  IF items = <<>> THEN st
  ELSE PushEach(StateOf(push(st, l, Head(items))), l, Tail(items))

\* a constructor that makes the sentinels once and shares them between lists
List_sharedSentinels(st, iterable) ==
  LET fresh == st.lists = <<>>
      headN == IF fresh THEN Len(st.heap) + 1 ELSE st.lists[1].head
      tailN == IF fresh THEN Len(st.heap) + 2 ELSE st.lists[1].tail
      h1 == Append(st.heap, Node(Null, Null, "undefined"))
      h2 == Append(h1, Node(headN, Null, "undefined"))
      h3 == IF fresh THEN [h2 EXCEPT ![headN].next = tailN] ELSE st.heap
      l == Len(st.lists) + 1
      st1 == [heap |-> h3,
              lists |-> Append(st.lists,
                               [head |-> headN, tail |-> tailN, length |-> 0])]
  IN IF ~iterable.isNull THEN PushEach(st1, l, iterable.items) ELSE st1

\* An iterable argument is [isNull, items]: isNull for a missing, undefined or
\* null argument (the default parameter makes them all null), items otherwise.
\* The new list is the last element of lists.
List(st, iterable) ==
  LET headN == Len(st.heap) + 1
      tailN == Len(st.heap) + 2
      h1 == Append(st.heap, Node(Null, Null, "undefined"))
      h2 == Append(h1, Node(headN, Null, "undefined"))
      h3 == [h2 EXCEPT ![headN].next = tailN]
      l == Len(st.lists) + 1
      st1 == [heap |-> h3,
              lists |-> Append(st.lists,
                               [head |-> headN, tail |-> tailN, length |-> 0])]
  IN IF ~iterable.isNull THEN PushEach(st1, l, iterable.items) ELSE st1

from(st, iterable) == List(st, iterable)

of(st, values) == List(st, [isNull |-> FALSE, items |-> values])

----------------------------------------------------------------------------
(* Positional accessors *)

firstNode(st, l) ==
  IF st.lists[l].length = 0 THEN ReturnNode(st, Undefined)
  ELSE ReturnNode(st, st.heap[st.lists[l].head].next)

\* lastNode without the test for the empty list
lastNode_noEmptyCheck(st, l) == ReturnNode(st, st.heap[st.lists[l].tail].prev)

lastNode(st, l) ==
  IF st.lists[l].length = 0 THEN ReturnNode(st, Undefined)
  ELSE ReturnNode(st, st.heap[st.lists[l].tail].prev)

\* first that takes the value out of the list: return this.shift()
first_viaShift(st, l) == shift(st, l)

first(st, l) ==
  IF st.lists[l].length = 0 THEN ReturnValue(st, "undefined")
  ELSE LET n == firstNode(st, l).retNode
       IN IF ~IsNode(st, n) THEN Throw(st)
          ELSE ReturnValue(st, st.heap[n].value)

last(st, l) ==
  IF st.lists[l].length = 0 THEN ReturnValue(st, "undefined")
  ELSE LET n == lastNode(st, l).retNode
       IN IF ~IsNode(st, n) THEN Throw(st)
          ELSE ReturnValue(st, st.heap[n].value)

----------------------------------------------------------------------------
(* Traversal.  A generator object is [pc, current]: pc is "start" before    *)
(* the first next(), "yielded" while suspended at its yield, "done" after   *)
(* it returned or threw.  Each ...Next operator is one call of next() and   *)
(* gives the generator afterwards with what the call produced.              *)

NewGenerator == [pc |-> "start", current |-> Null]

GenYieldNode(cur) ==
  [gen |-> [pc |-> "yielded", current |-> cur], done |-> FALSE,
   node |-> cur, value |-> "undefined", threw |-> FALSE]

GenYieldValue(cur, v) ==
  [gen |-> [pc |-> "yielded", current |-> cur], done |-> FALSE,
   node |-> Undefined, value |-> v, threw |-> FALSE]

GenDone(g) ==
  [gen |-> [pc |-> "done", current |-> g.current], done |-> TRUE,
   node |-> Undefined, value |-> "undefined", threw |-> FALSE]

GenThrow(g) ==
  [gen |-> [pc |-> "done", current |-> g.current], done |-> TRUE,
   node |-> Undefined, value |-> "undefined", threw |-> TRUE]

\* nodes() that starts at the head sentinel instead of head.next
nodesNext_fromHead(st, l, g) ==
  IF g.pc = "done" THEN GenDone(g)
  ELSE IF g.pc = "yielded" /\ ~IsNode(st, g.current) THEN GenThrow(g)
  ELSE LET cur == IF g.pc = "start"
                  THEN st.lists[l].head
                  ELSE st.heap[g.current].next
       IN IF cur = st.lists[l].tail THEN GenDone(g) ELSE GenYieldNode(cur)

\* nodes(): yields current, even when it is null; reading null.next throws
nodesNext(st, l, g) ==
  IF g.pc = "done" THEN GenDone(g)
  ELSE IF g.pc = "yielded" /\ ~IsNode(st, g.current) THEN GenThrow(g)
  ELSE LET cur == IF g.pc = "start"
                  THEN st.heap[st.lists[l].head].next
                  ELSE st.heap[g.current].next
       IN IF cur = st.lists[l].tail THEN GenDone(g) ELSE GenYieldNode(cur)

\* nodesReversed() that stops one node early: while (current.prev !== head)
nodesReversedNext_stopsEarly(st, l, g) ==
  IF g.pc = "done" THEN GenDone(g)
  ELSE IF g.pc = "yielded" /\ ~IsNode(st, g.current) THEN GenThrow(g)
  ELSE LET cur == IF g.pc = "start"
                  THEN st.heap[st.lists[l].tail].prev
                  ELSE st.heap[g.current].prev
       IN IF cur = st.lists[l].head \/ st.heap[cur].prev = st.lists[l].head
          THEN GenDone(g) ELSE GenYieldNode(cur)

nodesReversedNext(st, l, g) ==
  IF g.pc = "done" THEN GenDone(g)
  ELSE IF g.pc = "yielded" /\ ~IsNode(st, g.current) THEN GenThrow(g)
  ELSE LET cur == IF g.pc = "start"
                  THEN st.heap[st.lists[l].tail].prev
                  ELSE st.heap[g.current].prev
       IN IF cur = st.lists[l].head THEN GenDone(g) ELSE GenYieldNode(cur)

\* [Symbol.iterator]() that advances before its first yield
iteratorNext_skipsFirst(st, l, g) ==
  IF g.pc = "done" THEN GenDone(g)
  ELSE LET start == IF g.pc = "start"
                    THEN st.heap[st.lists[l].head].next
                    ELSE g.current
           cur == st.heap[start].next
       IN IF start = st.lists[l].tail \/ cur = st.lists[l].tail
          THEN GenDone(g)
          ELSE IF ~IsNode(st, cur) THEN GenThrow(g)
          ELSE GenYieldValue(cur, st.heap[cur].value)

\* [Symbol.iterator](): yields current.value, so a null current throws at once
iteratorNext(st, l, g) ==
  IF g.pc = "done" THEN GenDone(g)
  ELSE LET cur == IF g.pc = "start"
                  THEN st.heap[st.lists[l].head].next
                  ELSE st.heap[g.current].next
       IN IF cur = st.lists[l].tail THEN GenDone(g)
          ELSE IF ~IsNode(st, cur) THEN GenThrow(g)
          ELSE GenYieldValue(cur, st.heap[cur].value)

GenNext(kind, st, l, g) ==
  CASE kind = "nodes" -> nodesNext(st, l, g)
    [] kind = "nodesReversed" -> nodesReversedNext(st, l, g)
    [] kind = "iterator" -> iteratorNext(st, l, g)

\* A for-of loop, or Array.from, over a generator: next() until done.  The
\* outcome is what was yielded: the nodes, or the values for the iterator.
\* fuel stops the evaluation of a walk that would never end.
RECURSIVE Drain(_, _, _, _, _)
Drain(kind, st, l, g, fuel) ==
  LET r == GenNext(kind, st, l, g)
  IN IF r.done \/ fuel = 0
     THEN [nodes |-> <<>>, values |-> <<>>, threw |-> r.threw, ended |-> r.done]
     ELSE LET rest == Drain(kind, st, l, r.gen, fuel - 1)
          IN [nodes |-> IF kind = "iterator" THEN <<>> ELSE <<r.node>> \o rest.nodes,
              values |-> IF kind = "iterator" THEN <<r.value>> \o rest.values ELSE <<>>,
              threw |-> rest.threw, ended |-> rest.ended]

Fuel(st) == Len(st.heap) + 1

nodes(st, l) == Drain("nodes", st, l, NewGenerator, Fuel(st))

nodesReversed(st, l) == Drain("nodesReversed", st, l, NewGenerator, Fuel(st))

iterator(st, l) == Drain("iterator", st, l, NewGenerator, Fuel(st))

----------------------------------------------------------------------------
(* Search *)

\* the callbacks handed to find
Preds == {"isA", "isB", "never"}

Callback(p, v) ==
  CASE p = "isA" -> v = "A"
    [] p = "isB" -> v = "B"
    [] p = "never" -> FALSE

\* the loop of find that goes on calling the callback after a match
RECURSIVE findLoop_noStop(_, _, _, _, _, _)
findLoop_noStop(st, l, g, p, calls, fuel) ==
  LET r == nodesNext(st, l, g)
  IN IF r.threw
     THEN [retNode |-> Undefined, calls |-> calls, threw |-> TRUE]
     ELSE IF r.done \/ fuel = 0
     THEN [retNode |-> Undefined, calls |-> calls, threw |-> FALSE]
     ELSE IF ~IsNode(st, r.node)
     THEN [retNode |-> Undefined, calls |-> calls, threw |-> TRUE]
     ELSE LET v == st.heap[r.node].value
              rest == findLoop_noStop(st, l, r.gen, p, Append(calls, v), fuel - 1)
          IN IF Callback(p, v)
             THEN [retNode |-> r.node, calls |-> rest.calls, threw |-> rest.threw]
             ELSE rest

\* the loop of find over this.nodes(); calls lists the values the callback
\* was called with, in order
RECURSIVE findLoop(_, _, _, _, _, _)
findLoop(st, l, g, p, calls, fuel) ==
  LET r == nodesNext(st, l, g)
  IN IF r.threw
     THEN [retNode |-> Undefined, calls |-> calls, threw |-> TRUE]
     ELSE IF r.done \/ fuel = 0
     THEN [retNode |-> Undefined, calls |-> calls, threw |-> FALSE]
     ELSE IF ~IsNode(st, r.node)
     THEN [retNode |-> Undefined, calls |-> calls, threw |-> TRUE]
     ELSE LET v == st.heap[r.node].value
          IN IF Callback(p, v)
             THEN [retNode |-> r.node, calls |-> Append(calls, v), threw |-> FALSE]
             ELSE findLoop(st, l, r.gen, p, Append(calls, v), fuel - 1)

\* find that walks from the last node to the first
RECURSIVE findLoop_reversed(_, _, _, _, _, _)
findLoop_reversed(st, l, g, p, calls, fuel) ==
  LET r == nodesReversedNext(st, l, g)
  IN IF r.threw
     THEN [retNode |-> Undefined, calls |-> calls, threw |-> TRUE]
     ELSE IF r.done \/ fuel = 0
     THEN [retNode |-> Undefined, calls |-> calls, threw |-> FALSE]
     ELSE IF ~IsNode(st, r.node)
     THEN [retNode |-> Undefined, calls |-> calls, threw |-> TRUE]
     ELSE LET v == st.heap[r.node].value
          IN IF Callback(p, v)
             THEN [retNode |-> r.node, calls |-> Append(calls, v), threw |-> FALSE]
             ELSE findLoop_reversed(st, l, r.gen, p, Append(calls, v), fuel - 1)

find_fromBack(st, l, p) ==
  findLoop_reversed(st, l, NewGenerator, p, <<>>, Fuel(st))

find(st, l, p) == findLoop(st, l, NewGenerator, p, <<>>, Fuel(st))

----------------------------------------------------------------------------
(* The state machine: one list built by a constructor call, then any        *)
(* sequence of calls of its methods.  hist is the record of the calls:      *)
(* hist[1] is the last call with its arguments and outcome and the program  *)
(* state it started from; hist[2] is the call before it, kept when the two  *)
(* are an insertion followed by a removal.                                  *)

Cur == [heap |-> heap, lists |-> lists]

\* no traversal in progress.  Of a traversal: its kind and list, the
\* generator, the nodes it stood on at each yield and the values it yielded
\* so far, whether next() threw, the chain and contents of the list when
\* it began, and the nodes inserted since, those put after the most recently
\* yielded node (ahead) and those put before it (behind).
NoGen ==
  [kind |-> "none", list |-> 0, g |-> NewGenerator, visited |-> <<>>,
   values |-> <<>>, threw |-> FALSE, chain0 |-> <<>>, contents0 |-> <<>>,
   ahead |-> {}, behind |-> {}]

NoCall ==
  [name |-> "none", list |-> 0, node |-> Undefined, upTo |-> Undefined,
   value |-> "undefined",
   isNull |-> FALSE, items |-> <<>>, pred |-> "none",
   retNode |-> Undefined, retValue |-> "undefined",
   nodesOut |-> <<>>, valuesOut |-> <<>>, calls |-> <<>>, threw |-> FALSE]

Inserts == {"push", "unshift", "insertAfter", "insertBefore"}

Removes == {"pop", "shift", "remove"}

Log(c) ==
  /\ hist' = <<[call |-> c, heap |-> heap, lists |-> lists]>>
             \o (IF hist # <<>> /\ hist[1].call.name \in Inserts
                    /\ c.name \in Removes
                 THEN <<hist[1]>> ELSE <<>>)
  /\ UNCHANGED gen

\* a call of a method that returns r
Apply(c, r) ==
  /\ heap' = r.heap
  /\ lists' = r.lists
  /\ Log([c EXCEPT !.retNode = r.retNode, !.retValue = r.retValue,
                   !.threw = r.threw])

\* a walk over the list
Walked(c, w) ==
  /\ UNCHANGED <<heap, lists>>
  /\ Log([c EXCEPT !.nodesOut = w.nodes, !.valuesOut = w.values,
                   !.threw = w.threw])

SeqsUpTo(n) == UNION {[1..k -> Values] : k \in 0..n}

Iterables ==
  {[isNull |-> TRUE, items |-> <<>>]}
    \cup {[isNull |-> FALSE, items |-> s] : s \in SeqsUpTo(MaxInit)}

Empty == [heap |-> <<>>, lists |-> <<>>]

Built(name, it, st) ==
  /\ heap = st.heap
  /\ lists = st.lists
  /\ hist = <<[call |-> [NoCall EXCEPT !.name = name, !.list = 1,
                                        !.isNull = it.isNull, !.items = it.items],
               heap |-> <<>>, lists |-> <<>>]>>
  /\ gen = NoGen

Init ==
  \E it \in Iterables :
    \/ Built("new", it, List(Empty, it))
    \/ Built("from", it, from(Empty, it))
    \/ ~it.isNull /\ Built("of", it, of(Empty, it.items))

Lists == 1..Len(lists)

\* real nodes allocated so far
Allocated == Len(heap) - 2 * Len(lists)

\* the valid handles of list l: the nodes linked between its sentinels
Live(l) == {nodes(Cur, l).nodes[i] : i \in 1..Len(nodes(Cur, l).nodes)}

Push(l, v) ==
  /\ Allocated < MaxNodes
  /\ Apply([NoCall EXCEPT !.name = "push", !.list = l, !.value = v],
           push(Cur, l, v))

Unshift(l, v) ==
  /\ Allocated < MaxNodes
  /\ Apply([NoCall EXCEPT !.name = "unshift", !.list = l, !.value = v],
           unshift(Cur, l, v))

InsertAfter(l, n, v) ==
  /\ Allocated < MaxNodes
  /\ Apply([NoCall EXCEPT !.name = "insertAfter", !.list = l, !.node = n,
                          !.value = v],
           insertAfter(Cur, l, n, v))

InsertBefore(l, n, v) ==
  /\ Allocated < MaxNodes
  /\ Apply([NoCall EXCEPT !.name = "insertBefore", !.list = l, !.node = n,
                          !.value = v],
           insertBefore(Cur, l, n, v))

Remove(l, n) ==
  Apply([NoCall EXCEPT !.name = "remove", !.list = l, !.node = n],
        remove(Cur, l, n))

Pop(l) == Apply([NoCall EXCEPT !.name = "pop", !.list = l], pop(Cur, l))

Shift(l) == Apply([NoCall EXCEPT !.name = "shift", !.list = l], shift(Cur, l))

First(l) == Apply([NoCall EXCEPT !.name = "first", !.list = l], first(Cur, l))

Last(l) == Apply([NoCall EXCEPT !.name = "last", !.list = l], last(Cur, l))

FirstNode(l) ==
  Apply([NoCall EXCEPT !.name = "firstNode", !.list = l], firstNode(Cur, l))

LastNode(l) ==
  Apply([NoCall EXCEPT !.name = "lastNode", !.list = l], lastNode(Cur, l))

Find(l, p) ==
  LET r == find(Cur, l, p)
  IN /\ UNCHANGED <<heap, lists>>
     /\ Log([NoCall EXCEPT !.name = "find", !.list = l, !.pred = p,
                           !.retNode = r.retNode, !.calls = r.calls,
                           !.threw = r.threw])

Nodes(l) == Walked([NoCall EXCEPT !.name = "nodes", !.list = l], nodes(Cur, l))

NodesReversed(l) ==
  Walked([NoCall EXCEPT !.name = "nodesReversed", !.list = l],
         nodesReversed(Cur, l))

Iterate(l) ==
  Walked([NoCall EXCEPT !.name = "iterator", !.list = l], iterator(Cur, l))

\* every handle argument is a live node of the list or the sentinel the
\* method allows
Next ==
  \/ \E l \in Lists, v \in Values : Push(l, v)
  \/ \E l \in Lists, v \in Values : Unshift(l, v)
  \/ \E l \in Lists, v \in Values :
       \E n \in Live(l) \cup {lists[l].head} : InsertAfter(l, n, v)
  \/ \E l \in Lists, v \in Values :
       \E n \in Live(l) \cup {lists[l].tail} : InsertBefore(l, n, v)
  \/ \E l \in Lists : \E n \in Live(l) : Remove(l, n)
  \/ \E l \in Lists : Pop(l)
  \/ \E l \in Lists : Shift(l)
  \/ \E l \in Lists : First(l)
  \/ \E l \in Lists : Last(l)
  \/ \E l \in Lists : FirstNode(l)
  \/ \E l \in Lists : LastNode(l)
  \/ \E l \in Lists, p \in Preds : Find(l, p)
  \/ \E l \in Lists : Nodes(l)
  \/ \E l \in Lists : NodesReversed(l)
  \/ \E l \in Lists : Iterate(l)

Spec == Init /\ [][Next]_vars

----------------------------------------------------------------------------
(* The same machine with no restriction on the handle arguments: a caller   *)
(* may pass undefined, null, a sentinel, or a node that was removed         *)
(* (list.head and list.tail are ordinary properties of the list object).    *)

Handles == {Undefined, Null} \cup (1..Len(heap))

NextAnyHandle ==
  \/ \E l \in Lists, v \in Values : Push(l, v)
  \/ \E l \in Lists, v \in Values : Unshift(l, v)
  \/ \E l \in Lists, v \in Values : \E n \in Handles : InsertAfter(l, n, v)
  \/ \E l \in Lists, v \in Values : \E n \in Handles : InsertBefore(l, n, v)
  \/ \E l \in Lists : \E n \in Handles : Remove(l, n)
  \/ \E l \in Lists : Pop(l)
  \/ \E l \in Lists : Shift(l)
  \/ \E l \in Lists : First(l)
  \/ \E l \in Lists : Last(l)
  \/ \E l \in Lists : FirstNode(l)
  \/ \E l \in Lists : LastNode(l)
  \/ \E l \in Lists, p \in Preds : Find(l, p)
  \/ \E l \in Lists : Nodes(l)
  \/ \E l \in Lists : NodesReversed(l)
  \/ \E l \in Lists : Iterate(l)

SpecAnyHandle == Init /\ [][NextAnyHandle]_vars

----------------------------------------------------------------------------
(* The machine of a caller that misuses its handles: besides the valid      *)
(* handles it may pass undefined, null, or any node that is not linked in   *)
(* the list: one that was removed, or one an earlier misuse left behind.    *)
(* The sentinels are passed only where the method allows them.              *)

\* the nodes that were removed: release() is the only code that stores null
\* in value
Removed(st) == {n \in 1..Len(st.heap) : st.heap[n].value = "null"}

AllSentinels == UNION {{lists[l].head, lists[l].tail} : l \in 1..Len(lists)}

StaleHandles == ((1..Len(heap)) \ AllSentinels) \cup {Undefined, Null}

NextStaleHandle ==
  \/ \E l \in Lists, v \in Values : Push(l, v)
  \/ \E l \in Lists, v \in Values : Unshift(l, v)
  \/ \E l \in Lists, v \in Values :
       \E n \in Live(l) \cup {lists[l].head} \cup StaleHandles :
         InsertAfter(l, n, v)
  \/ \E l \in Lists, v \in Values :
       \E n \in Live(l) \cup {lists[l].tail} \cup StaleHandles :
         InsertBefore(l, n, v)
  \/ \E l \in Lists : \E n \in Live(l) \cup StaleHandles : Remove(l, n)
  \/ \E l \in Lists : Pop(l)
  \/ \E l \in Lists : Shift(l)
  \/ \E l \in Lists : First(l)
  \/ \E l \in Lists : Last(l)
  \/ \E l \in Lists : FirstNode(l)
  \/ \E l \in Lists : LastNode(l)
  \/ \E l \in Lists, p \in Preds : Find(l, p)
  \/ \E l \in Lists : Nodes(l)
  \/ \E l \in Lists : NodesReversed(l)
  \/ \E l \in Lists : Iterate(l)

SpecStaleHandle == Init /\ [][NextStaleHandle]_vars

----------------------------------------------------------------------------
(* The list used as a queue: after the constructor only push and shift are  *)
(* called.  Here hist keeps every call, the latest first.                   *)

ApplyAll(c, r) ==
  /\ Len(hist) <= MaxCalls
  /\ heap' = r.heap
  /\ lists' = r.lists
  /\ hist' = <<[call |-> [c EXCEPT !.retNode = r.retNode,
                                   !.retValue = r.retValue, !.threw = r.threw],
                heap |-> heap, lists |-> lists]>> \o hist
  /\ UNCHANGED gen

QueuePush(l, v) ==
  /\ Allocated < MaxNodes
  /\ ApplyAll([NoCall EXCEPT !.name = "push", !.list = l, !.value = v],
              push(Cur, l, v))

QueueShift(l) ==
  ApplyAll([NoCall EXCEPT !.name = "shift", !.list = l], shift(Cur, l))

NextQueue ==
  \/ \E l \in Lists, v \in Values : QueuePush(l, v)
  \/ \E l \in Lists : QueueShift(l)

SpecQueue == Init /\ [][NextQueue]_vars

----------------------------------------------------------------------------
(* The methods the README documents beyond those above.  class List         *)
(* (src/src/list.js 18-327) defines no slice, previousNode or nextNode:     *)
(* list.slice is undefined and calling it throws a TypeError before         *)
(* anything of the list is read.  nodes () declares no parameters, so the   *)
(* arguments of nodes(first, last) are ignored.                             *)

\* a call of a property that is undefined: "list.slice is not a function"
CallUndefined(st) == Throw(st)

slice(st, l, fromNode, toNode) == CallUndefined(st)

previousNode(st, l, node) == CallUndefined(st)

nextNode(st, l, node) == CallUndefined(st)

\* nodes(first, last)
nodesBetween(st, l, fromNode, toNode) == nodes(st, l)

\* the handle arguments the README allows: a node of the list or nothing
Optional(l) == Live(l) \cup {Undefined}

Slice(l, f, t) ==
  Apply([NoCall EXCEPT !.name = "slice", !.list = l, !.node = f, !.upTo = t],
        slice(Cur, l, f, t))

PreviousNode(l, n) ==
  Apply([NoCall EXCEPT !.name = "previousNode", !.list = l, !.node = n],
        previousNode(Cur, l, n))

NextNode(l, n) ==
  Apply([NoCall EXCEPT !.name = "nextNode", !.list = l, !.node = n],
        nextNode(Cur, l, n))

NodesBetween(l, f, t) ==
  Walked([NoCall EXCEPT !.name = "nodes", !.list = l, !.node = f, !.upTo = t],
         nodesBetween(Cur, l, f, t))

NextDocumented ==
  \/ Next
  \/ \E l \in Lists : \E f \in Optional(l), t \in Optional(l) : Slice(l, f, t)
  \/ \E l \in Lists : \E n \in Optional(l) : PreviousNode(l, n)
  \/ \E l \in Lists : \E n \in Optional(l) : NextNode(l, n)
  \/ \E l \in Lists : \E f \in Optional(l), t \in Optional(l) :
       NodesBetween(l, f, t)

SpecDocumented == Init /\ [][NextDocumented]_vars

----------------------------------------------------------------------------
(* A traversal taken one step at a time, with the list modified between two *)
(* steps.  list.nodes() makes the generator object and runs none of its     *)
(* body; each next() runs it up to its next yield.                          *)

Kinds == {"nodes", "nodesReversed", "iterator"}

GenBegin(kind, l) ==
  /\ gen.kind = "none"
  /\ gen' = [NoGen EXCEPT !.kind = kind, !.list = l,
                          !.chain0 = nodes(Cur, l).nodes,
                          !.contents0 = iterator(Cur, l).values]
  /\ UNCHANGED <<heap, lists, hist>>

\* one call of next() on the generator
GenStep ==
  /\ gen.kind # "none"
  /\ gen.g.pc # "done"
  /\ LET r == GenNext(gen.kind, Cur, gen.list, gen.g)
     IN gen' = [gen EXCEPT
                  !.g = r.gen,
                  !.threw = r.threw,
                  !.visited = IF r.done THEN @ ELSE Append(@, r.gen.current),
                  !.values = IF r.done \/ gen.kind # "iterator" THEN @
                             ELSE Append(@, r.value)]
  /\ UNCHANGED <<heap, lists, hist>>

\* the nodes yielded before the most recently yielded one that are still in
\* the list
Behind(l) ==
  IF gen.list = l /\ gen.g.pc = "yielded"
  THEN {gen.visited[i] : i \in 1..(Len(gen.visited) - 1)} \cap Live(l)
  ELSE {}

\* before the traversal begins the list is used as in Next; while the
\* traversal is suspended at a yield, nodes behind it are removed, by remove
\* or, when they are at an end of the list, by shift or pop
NextTraversal ==
  \/ gen.kind = "none" /\ Next
  \/ \E kind \in Kinds, l \in Lists : GenBegin(kind, l)
  \/ GenStep
  \/ \E l \in Lists : \E n \in Behind(l) : Remove(l, n)
  \/ \E l \in Lists : heap[lists[l].head].next \in Behind(l) /\ Shift(l)
  \/ \E l \in Lists : heap[lists[l].tail].prev \in Behind(l) /\ Pop(l)

SpecTraversal == Init /\ [][NextTraversal]_vars

----------------------------------------------------------------------------
(* A forward traversal with values inserted while it is suspended at a     *)
(* yield.                                                                   *)

\* the most recently yielded node
Cursor == gen.visited[Len(gen.visited)]

\* the place of node n in list l: 0 for the head sentinel, then the real
\* nodes from 1, then the tail sentinel
PlaceOf(l, n) ==
  LET ch == nodes(Cur, l).nodes
  IN IF n = lists[l].head THEN 0
     ELSE IF n = lists[l].tail THEN Len(ch) + 1
     ELSE CHOOSE i \in 1..Len(ch) : ch[i] = n

\* a call of an inserting method between two next() calls; isAhead: the new
\* node is put after the most recently yielded node
InsertDuring(c, r, isAhead) ==
  /\ gen.kind # "none"
  /\ gen.g.pc = "yielded"
  /\ gen.list = c.list
  /\ Allocated < MaxNodes
  /\ heap' = r.heap
  /\ lists' = r.lists
  /\ hist' = <<[call |-> [c EXCEPT !.retNode = r.retNode, !.threw = r.threw],
                heap |-> heap, lists |-> lists]>>
  /\ gen' = [gen EXCEPT
               !.ahead = IF isAhead THEN @ \cup {r.retNode} ELSE @,
               !.behind = IF isAhead THEN @ ELSE @ \cup {r.retNode}]

PushDuring(l, v) ==
  InsertDuring([NoCall EXCEPT !.name = "push", !.list = l, !.value = v],
               push(Cur, l, v), TRUE)

UnshiftDuring(l, v) ==
  InsertDuring([NoCall EXCEPT !.name = "unshift", !.list = l, !.value = v],
               unshift(Cur, l, v), FALSE)

InsertAfterDuring(l, n, v) ==
  InsertDuring([NoCall EXCEPT !.name = "insertAfter", !.list = l,
                              !.node = n, !.value = v],
               insertAfter(Cur, l, n, v),
               PlaceOf(l, n) >= PlaceOf(l, Cursor))

InsertBeforeDuring(l, n, v) ==
  InsertDuring([NoCall EXCEPT !.name = "insertBefore", !.list = l,
                              !.node = n, !.value = v],
               insertBefore(Cur, l, n, v),
               PlaceOf(l, n) > PlaceOf(l, Cursor))

NextLiveTraversal ==
  \/ gen.kind = "none" /\ Next
  \/ \E kind \in {"nodes", "iterator"}, l \in Lists : GenBegin(kind, l)
  \/ GenStep
  \/ \E l \in Lists, v \in Values : PushDuring(l, v)
  \/ \E l \in Lists, v \in Values : UnshiftDuring(l, v)
  \/ \E l \in Lists, v \in Values :
       \E n \in Live(l) \cup {lists[l].head} : InsertAfterDuring(l, n, v)
  \/ \E l \in Lists, v \in Values :
       \E n \in Live(l) \cup {lists[l].tail} : InsertBeforeDuring(l, n, v)

SpecLiveTraversal == Init /\ [][NextLiveTraversal]_vars

----------------------------------------------------------------------------
(* A forward traversal whose most recently yielded node is removed while   *)
(* it is suspended at the yield.                                            *)

AtLiveCursor(l) ==
  /\ gen.kind # "none"
  /\ gen.g.pc = "yielded"
  /\ gen.list = l
  /\ Cursor \in Live(l)

NextCursorRemoved ==
  \/ gen.kind = "none" /\ Next
  \/ \E kind \in {"nodes", "iterator"}, l \in Lists : GenBegin(kind, l)
  \/ GenStep
  \/ \E l \in Lists : AtLiveCursor(l) /\ Remove(l, Cursor)
  \/ \E l \in Lists :
       AtLiveCursor(l) /\ heap[lists[l].head].next = Cursor /\ Shift(l)
  \/ \E l \in Lists :
       AtLiveCursor(l) /\ heap[lists[l].tail].prev = Cursor /\ Pop(l)

SpecCursorRemoved == Init /\ [][NextCursorRemoved]_vars

----------------------------------------------------------------------------
(* Two lists in one program: a second list is constructed, and every call   *)
(* passes a list only its own handles.                                      *)

Construct(it) ==
  /\ Len(lists) = 1
  /\ Allocated + Len(it.items) <= MaxNodes
  /\ LET st == List(Cur, it)
     IN /\ heap' = st.heap
        /\ lists' = st.lists
        /\ Log([NoCall EXCEPT !.name = "new", !.list = Len(st.lists),
                              !.isNull = it.isNull, !.items = it.items])

\* the methods that assign to a node or to length, each with valid handles
NextTwoLists ==
  \/ \E it \in Iterables : Construct(it)
  \/ \E l \in Lists, v \in Values : Push(l, v)
  \/ \E l \in Lists, v \in Values : Unshift(l, v)
  \/ \E l \in Lists, v \in Values :
       \E n \in Live(l) \cup {lists[l].head} : InsertAfter(l, n, v)
  \/ \E l \in Lists, v \in Values :
       \E n \in Live(l) \cup {lists[l].tail} : InsertBefore(l, n, v)
  \/ \E l \in Lists : \E n \in Live(l) : Remove(l, n)
  \/ \E l \in Lists : Pop(l)
  \/ \E l \in Lists : Shift(l)

SpecTwoLists == Init /\ [][NextTwoLists]_vars

----------------------------------------------------------------------------
(* Vocabulary of the properties *)

\* the program state the last call started from
Pre == [heap |-> hist[1].heap, lists |-> hist[1].lists]

\* the last call
Call == hist[1].call

\* the values of list l, as default iteration gives them
Contents(st, l) == iterator(st, l).values

\* the real nodes of list l from first to last
Chain(st, l) == nodes(st, l).nodes

Reverse(s) == [i \in 1..Len(s) |-> s[Len(s) + 1 - i]]

Front(s) == SubSeq(s, 1, Len(s) - 1)

Range(s) == {s[i] : i \in 1..Len(s)}

Sentinels(st, l) == {st.lists[l].head, st.lists[l].tail}

\* following next from node n reaches node t within fuel steps
RECURSIVE Reaches(_, _, _, _)
Reaches(st, n, t, fuel) ==
  IF n = t THEN TRUE
  ELSE IF fuel = 0 \/ ~IsNode(st, n) THEN FALSE
  ELSE Reaches(st, st.heap[n].next, t, fuel - 1)

\* the real nodes of list l: the nodes, other than its sentinels, linked
\* into the chain that ends at its tail
RealNodes(st, l) ==
  {n \in 1..Len(st.heap) :
     /\ n \notin Sentinels(st, l)
     /\ Reaches(st, n, st.lists[l].tail, Fuel(st))}

SentinelsIntact(st, l) ==
  /\ st.heap[st.lists[l].head].prev = Null
  /\ st.heap[st.lists[l].tail].next = Null

----------------------------------------------------------------------------
(* Structural invariants *)

\* C1: after any sequence of public operations with valid handles, the walk
\* forward from head.next to tail and the walk backward from tail.prev to
\* head both end, each visits exactly `length` nodes, no node is visited
\* twice (the chain is acyclic), and the backward walk is the reverse of the
\* forward walk.
C1_WalksAgree ==
  \A l \in Lists :
    LET f == nodes(Cur, l)
        b == nodesReversed(Cur, l)
    IN /\ f.ended /\ ~f.threw
       /\ b.ended /\ ~b.threw
       /\ Cardinality(Range(f.nodes)) = Len(f.nodes)
       /\ Len(f.nodes) = lists[l].length
       /\ Len(b.nodes) = lists[l].length
       /\ b.nodes = Reverse(f.nodes)

C1_Witness ==
  /\ Call.name = "remove"
  /\ ~Call.threw
  /\ lists[1].length = 2
  /\ Pre.heap[Call.node].prev # Pre.lists[1].head
  /\ Pre.heap[Call.node].next # Pre.lists[1].tail

\* C2: after every public operation with valid handles, every node a of the
\* chain from head to tail, sentinels included, that has a successor b
\* (a.next == b) is that successor's predecessor (b.prev == a).
C2_MutualLinks ==
  \A l \in Lists :
    \A a \in Range(Chain(Cur, l)) \cup Sentinels(Cur, l) :
      heap[a].next # Null => heap[heap[a].next].prev = a

C2_Witness ==
  /\ Call.name = "insertAfter"
  /\ ~Call.threw
  /\ Call.node \in Range(Chain(Pre, 1))
  /\ heap[Call.retNode].next # lists[1].tail
  /\ lists[1].length = 3

\* C3: in every reachable state these are equivalent: the list has no real
\* node; head.next == tail; tail.prev == head; length == 0.
C3_EmptyIff ==
  \A l \in Lists :
    /\ (RealNodes(Cur, l) = {}) <=> (lists[l].length = 0)
    /\ (heap[lists[l].head].next = lists[l].tail) <=> (lists[l].length = 0)
    /\ (heap[lists[l].tail].prev = lists[l].head) <=> (lists[l].length = 0)

C3_Witness ==
  /\ Call.name = "remove"
  /\ ~Call.threw
  /\ Pre.lists[1].length = 1
  /\ lists[1].length = 0
  /\ heap[lists[1].head].next = lists[1].tail

\* C4: the sentinels are permanent and never handed out: after every public
\* operation head.prev and tail.next are null, head and tail are the objects
\* they were before the call (so the ones the constructor made), and the
\* node returned by firstNode, lastNode, find, push, unshift, insertAfter or
\* insertBefore, and every node yielded by nodes or nodesReversed, is not a
\* sentinel.  The claim names no restriction on the arguments, so it is
\* checked under SpecStaleHandle: after remove(n), a first insertAfter(n, v)
\* throws having set n.next, a second one returns normally and increments
\* length without touching the chain, and firstNode() then returns the tail
\* sentinel.  Under SpecAnyHandle insertAfter(list.tail, v) throws after it
\* has set tail.next.  (Under Spec, with valid handles only, it holds.)
C4_SentinelsHidden ==
  \A l \in Lists :
    /\ SentinelsIntact(Cur, l)
    /\ l \in 1..Len(Pre.lists) =>
         /\ lists[l].head = Pre.lists[l].head
         /\ lists[l].tail = Pre.lists[l].tail
    /\ Call.list = l =>
         /\ Call.retNode \notin Sentinels(Cur, l)
         /\ Range(Call.nodesOut) \cap Sentinels(Cur, l) = {}

----------------------------------------------------------------------------
(* Construction and the operations at the two ends *)

\* C5: for every finite sequence S, new List(S), List.from(S) and
\* List.of(...S) give a list whose default iteration yields exactly S in
\* order and whose length is |S|; with no argument or null the list is
\* empty with length 0.
C5_ConstructionRoundTrip ==
  Call.name \in {"new", "from", "of"} =>
    /\ ~iterator(Cur, Call.list).threw
    /\ iterator(Cur, Call.list).ended
    /\ Contents(Cur, Call.list) = Call.items
    /\ lists[Call.list].length = Len(Call.items)
    /\ Call.isNull =>
         /\ Contents(Cur, Call.list) = <<>>
         /\ lists[Call.list].length = 0

C5_Witness ==
  /\ Call.name = "of"
  /\ Call.items = <<"A", "B">>
  /\ Contents(Cur, 1) = <<"A", "B">>

\* C6: push(v) on a list with contents C leaves the contents C followed by
\* v, length one greater, the nodes that were there in the same order with
\* the same values, and returns the new last node, which carries v.
C6_PushAppends ==
  Call.name = "push" =>
    LET l == Call.list
    IN /\ ~Call.threw
       /\ Contents(Cur, l) = Append(Contents(Pre, l), Call.value)
       /\ lists[l].length = Pre.lists[l].length + 1
       /\ Chain(Cur, l) = Append(Chain(Pre, l), Call.retNode)
       /\ \A n \in Range(Chain(Pre, l)) : heap[n].value = Pre.heap[n].value
       /\ Call.retNode \notin 1..Len(Pre.heap)
       /\ Call.retNode = heap[lists[l].tail].prev
       /\ heap[Call.retNode].value = Call.value

C6_Witness ==
  /\ Call.name = "push"
  /\ Call.value = "B"
  /\ Contents(Pre, 1) = <<"B", "A">>
  /\ Contents(Cur, 1) = <<"B", "A", "B">>

\* C7: pop() on a non-empty list with contents C.v returns v, leaves the
\* contents C and length one smaller; pop() on an empty list returns
\* undefined without throwing and leaves the list empty, with length 0 and
\* the sentinels intact.
C7_Pop ==
  Call.name = "pop" =>
    LET l == Call.list
        old == Contents(Pre, l)
    IN /\ ~Call.threw
       /\ old # <<>> =>
            /\ Call.retValue = old[Len(old)]
            /\ Contents(Cur, l) = Front(old)
            /\ lists[l].length = Pre.lists[l].length - 1
       /\ old = <<>> =>
            /\ Call.retValue = "undefined"
            /\ Contents(Cur, l) = <<>>
            /\ lists[l].length = 0
            /\ SentinelsIntact(Cur, l)
            /\ heap[lists[l].head].next = lists[l].tail
            /\ heap[lists[l].tail].prev = lists[l].head

C7_Witness ==
  /\ Call.name = "pop"
  /\ Contents(Pre, 1) = <<"A", "B">>
  /\ Call.retValue = "B"
  /\ Contents(Cur, 1) = <<"A">>

\* C8: shift() on a non-empty list with contents v.C returns v, leaves the
\* contents C and length one smaller; shift() on an empty list returns
\* undefined without throwing and leaves the list empty, with length 0 and
\* the sentinels intact.
C8_Shift ==
  Call.name = "shift" =>
    LET l == Call.list
        old == Contents(Pre, l)
    IN /\ ~Call.threw
       /\ old # <<>> =>
            /\ Call.retValue = old[1]
            /\ Contents(Cur, l) = Tail(old)
            /\ lists[l].length = Pre.lists[l].length - 1
       /\ old = <<>> =>
            /\ Call.retValue = "undefined"
            /\ Contents(Cur, l) = <<>>
            /\ lists[l].length = 0
            /\ SentinelsIntact(Cur, l)
            /\ heap[lists[l].head].next = lists[l].tail
            /\ heap[lists[l].tail].prev = lists[l].head

C8_Witness ==
  /\ Call.name = "shift"
  /\ Contents(Pre, 1) = <<"A", "B">>
  /\ Call.retValue = "A"
  /\ Contents(Cur, 1) = <<"B">>

\* C9: unshift(v) on a list with contents C, empty or not, leaves the
\* contents v followed by C, length one greater, and returns the list's
\* first node (what firstNode() returns), which carries v.
C9_UnshiftPrepends ==
  Call.name = "unshift" =>
    LET l == Call.list
    IN /\ ~Call.threw
       /\ Contents(Cur, l) = <<Call.value>> \o Contents(Pre, l)
       /\ lists[l].length = Pre.lists[l].length + 1
       /\ Call.retNode = firstNode(Cur, l).retNode
       /\ Call.retNode \notin 1..Len(Pre.heap)
       /\ heap[Call.retNode].value = Call.value

C9_Witness ==
  /\ Call.name = "unshift"
  /\ Call.value = "A"
  /\ Contents(Pre, 1) = <<"B">>
  /\ Contents(Cur, 1) = <<"A", "B">>

\* C10: push(v) immediately followed by pop() returns v and restores the
\* length, the sequence of values and the identity and order of the nodes
\* the list had before the push.
C10_PushPop ==
  (Len(hist) = 2 /\ Call.name = "pop" /\ hist[2].call.name = "push"
     /\ hist[2].call.list = Call.list) =>
    LET l == Call.list
        before == [heap |-> hist[2].heap, lists |-> hist[2].lists]
    IN /\ ~Call.threw
       /\ Call.retValue = hist[2].call.value
       /\ lists[l].length = before.lists[l].length
       /\ Contents(Cur, l) = Contents(before, l)
       /\ Chain(Cur, l) = Chain(before, l)

C10_Witness ==
  /\ Len(hist) = 2
  /\ Call.name = "pop"
  /\ hist[2].call.name = "push"
  /\ hist[2].call.value = "A"
  /\ Call.retValue = "A"
  /\ Contents(Cur, 1) = <<"A", "B">>

\* C11: unshift(v) immediately followed by shift() returns v and restores
\* the length and the contents the list had before the unshift, whatever the
\* list state, the empty list included.
C11_UnshiftShift ==
  (Len(hist) = 2 /\ Call.name = "shift" /\ hist[2].call.name = "unshift"
     /\ hist[2].call.list = Call.list) =>
    LET l == Call.list
        before == [heap |-> hist[2].heap, lists |-> hist[2].lists]
    IN /\ ~Call.threw
       /\ Call.retValue = hist[2].call.value
       /\ lists[l].length = before.lists[l].length
       /\ Contents(Cur, l) = Contents(before, l)
       /\ Chain(Cur, l) = Chain(before, l)

C11_Witness ==
  /\ Len(hist) = 2
  /\ Call.name = "shift"
  /\ hist[2].call.name = "unshift"
  /\ hist[2].call.value = "B"
  /\ Call.retValue = "B"
  /\ Contents(Cur, 1) = <<"A", "B">>
  /\ lists[1].length = 2

\* the same round trip on the empty list
C11_WitnessEmpty ==
  /\ Len(hist) = 2
  /\ Call.name = "shift"
  /\ hist[2].call.name = "unshift"
  /\ hist[2].lists[1].length = 0
  /\ Call.retValue = hist[2].call.value
  /\ Contents(Cur, 1) = <<>>

----------------------------------------------------------------------------
(* The list as a FIFO queue *)

\* the values put into the list by the calls of h (latest call first), in
\* the order they were put: those of the constructor's iterable, then one
\* for each push
RECURSIVE PushedIn(_)
PushedIn(h) ==
  IF h = <<>> THEN <<>>
  ELSE LET c == h[1].call
           earlier == PushedIn(Tail(h))
       IN IF c.name \in {"new", "from", "of"} THEN earlier \o c.items
          ELSE IF c.name = "push" /\ ~c.threw THEN Append(earlier, c.value)
          ELSE earlier

\* the values the shift calls of h returned, undefined left out, in order
RECURSIVE ShiftedIn(_)
ShiftedIn(h) ==
  IF h = <<>> THEN <<>>
  ELSE LET c == h[1].call
           earlier == ShiftedIn(Tail(h))
       IN IF c.name = "shift" /\ c.retValue # "undefined"
          THEN Append(earlier, c.retValue)
          ELSE earlier

IsPrefix(s, t) == Len(s) <= Len(t) /\ s = SubSeq(t, 1, Len(s))

\* C12: with push and shift only, the values shift has returned (undefined
\* left out) are a prefix of the values pushed, in push order, and a shift
\* returns undefined exactly when every value pushed before it had already
\* been shifted.
C12_Fifo ==
  /\ IsPrefix(ShiftedIn(hist), PushedIn(hist))
  /\ Call.name = "shift" =>
       /\ ~Call.threw
       /\ (Call.retValue = "undefined")
            <=> (Len(ShiftedIn(Tail(hist))) = Len(PushedIn(Tail(hist))))

C12_Witness ==
  /\ Call.name = "shift"
  /\ Call.retValue = "undefined"
  /\ PushedIn(hist) = <<"A", "B">>
  /\ ShiftedIn(hist) = <<"A", "B">>
  /\ Len(hist) = 6
  /\ hist[5].call.name = "push"
  /\ hist[4].call.name = "shift"

----------------------------------------------------------------------------
(* Insertion and removal at a node *)

\* the position of x in s, where it occurs once
IndexOf(s, x) == CHOOSE i \in 1..Len(s) : s[i] = x

\* s with x put behind its i-th element (i = 0: in front)
InsertAt(s, i, x) == SubSeq(s, 1, i) \o <<x>> \o SubSeq(s, i + 1, Len(s))

\* s without its i-th element
RemoveAt(s, i) == SubSeq(s, 1, i - 1) \o SubSeq(s, i + 1, Len(s))

\* C13: insertAfter(refNode, v), refNode a live real node, puts exactly one
\* new node carrying v directly behind refNode: the contents are the old
\* ones with v behind refNode's value, the other nodes keep their order,
\* length grows by 1 and the new node is returned.
C13_InsertAfter ==
  (Call.name = "insertAfter" /\ Call.node \in Range(Chain(Pre, Call.list))) =>
    LET l == Call.list
        i == IndexOf(Chain(Pre, l), Call.node)
    IN /\ ~Call.threw
       /\ Call.retNode \notin 1..Len(Pre.heap)
       /\ Chain(Cur, l) = InsertAt(Chain(Pre, l), i, Call.retNode)
       /\ Contents(Cur, l) = InsertAt(Contents(Pre, l), i, Call.value)
       /\ heap[Call.retNode].value = Call.value
       /\ heap[Call.node].next = Call.retNode
       /\ heap[Call.retNode].prev = Call.node
       /\ lists[l].length = Pre.lists[l].length + 1

C13_Witness ==
  /\ Call.name = "insertAfter"
  /\ Call.value = "B"
  /\ Contents(Pre, 1) = <<"A", "A">>
  /\ Call.node = Chain(Pre, 1)[1]
  /\ Contents(Cur, 1) = <<"A", "B", "A">>
  /\ lists[1].length = 3

\* C14: insertBefore(refNode, v), refNode a live real node or the tail
\* sentinel, puts exactly one new node carrying v directly in front of
\* refNode: the other nodes keep their order, length grows by 1, the new
\* node is returned, and with refNode = tail the value ends up last.
C14_InsertBefore ==
  (Call.name = "insertBefore"
     /\ Call.node \in Range(Chain(Pre, Call.list)) \cup {Pre.lists[Call.list].tail}) =>
    LET l == Call.list
        old == Chain(Pre, l)
        i == IF Call.node = Pre.lists[l].tail THEN Len(old)
             ELSE IndexOf(old, Call.node) - 1
    IN /\ ~Call.threw
       /\ Call.retNode \notin 1..Len(Pre.heap)
       /\ Chain(Cur, l) = InsertAt(old, i, Call.retNode)
       /\ Contents(Cur, l) = InsertAt(Contents(Pre, l), i, Call.value)
       /\ heap[Call.retNode].value = Call.value
       /\ heap[Call.retNode].next = Call.node
       /\ heap[Call.node].prev = Call.retNode
       /\ lists[l].length = Pre.lists[l].length + 1
       /\ Call.node = Pre.lists[l].tail =>
            Contents(Cur, l) = Append(Contents(Pre, l), Call.value)

C14_Witness ==
  /\ Call.name = "insertBefore"
  /\ Call.value = "B"
  /\ Contents(Pre, 1) = <<"A", "A">>
  /\ Call.node = Chain(Pre, 1)[2]
  /\ Contents(Cur, 1) = <<"A", "B", "A">>
  /\ lists[1].length = 3

\* insertBefore with the tail sentinel as reference
C14_WitnessTail ==
  /\ Call.name = "insertBefore"
  /\ Call.node = lists[1].tail
  /\ Contents(Pre, 1) = <<"A", "B">>
  /\ Contents(Cur, 1) = <<"A", "B", "A">>

\* C15: remove(node), node a live real node, deletes exactly that node: the
\* contents are the old ones without that occurrence, the other nodes keep
\* their identity and order, the node's former neighbours are adjacent to
\* each other, and length decreases by 1.
C15_Remove ==
  (Call.name = "remove" /\ Call.node \in Range(Chain(Pre, Call.list))) =>
    LET l == Call.list
        i == IndexOf(Chain(Pre, l), Call.node)
        p == Pre.heap[Call.node].prev
        n == Pre.heap[Call.node].next
    IN /\ ~Call.threw
       /\ Chain(Cur, l) = RemoveAt(Chain(Pre, l), i)
       /\ Contents(Cur, l) = RemoveAt(Contents(Pre, l), i)
       /\ \A x \in Range(Chain(Cur, l)) : heap[x].value = Pre.heap[x].value
       /\ heap[p].next = n
       /\ heap[n].prev = p
       /\ lists[l].length = Pre.lists[l].length - 1

C15_Witness ==
  /\ Call.name = "remove"
  /\ Contents(Pre, 1) = <<"A", "B", "A">>
  /\ Call.node = Chain(Pre, 1)[2]
  /\ Contents(Cur, 1) = <<"A", "A">>
  /\ lists[1].length = 2

----------------------------------------------------------------------------
(* Removed nodes *)

\* the nodes reached from the nodes of S by next and prev links
RECURSIVE Linked(_, _)
Linked(st, S) ==
  LET T == S \cup {x \in 1..Len(st.heap) :
                     \E n \in S : st.heap[n].next = x \/ st.heap[n].prev = x}
  IN IF T = S THEN S ELSE Linked(st, T)

\* the node a call of remove, pop or shift took out of the list
RemovedBy(c, st) ==
  CASE c.name = "remove" -> c.node
    [] c.name = "pop" -> st.heap[st.lists[c.list].tail].prev
    [] c.name = "shift" -> st.heap[st.lists[c.list].head].next

\* C16: when remove(node) has returned, also inside pop or shift, the
\* node's prev, next and value are null; and a removed node is never
\* reachable from head or tail, in either direction, in that state or any
\* later one: it does not become part of the list again.  Checked under
\* SpecStaleHandle, where the caller passes removed nodes, leftover nodes,
\* undefined and null back in.  The sentinels are not nodes removed from the
\* list; under SpecAnyHandle a failed insertAfter(list.tail, v) followed by
\* remove(list.tail) releases the tail sentinel itself.
C16_RemoveInvalidates ==
  /\ (Call.name \in Removes /\ ~Call.threw /\ Pre.lists[Call.list].length > 0) =>
       LET n == RemovedBy(Call, Pre)
       IN /\ heap[n] = [prev |-> Null, next |-> Null, value |-> "null"]
          /\ n \in Removed(Cur)
  /\ \A l \in Lists :
       Removed(Cur) \cap Linked(Cur, Sentinels(Cur, l)) = {}

C16_Witness ==
  /\ Call.name = "remove"
  /\ ~Call.threw
  /\ Call.node \in Range(Chain(Pre, 1))
  /\ Pre.lists[1].length = 3
  /\ heap[Call.node].value = "null"
  /\ Call.node \notin Linked(Cur, Sentinels(Cur, 1))

\* a removed node handed to insertAfter a second time: the call returns a
\* node, and the removed node is still outside the list
C16_WitnessReuse ==
  /\ Call.name = "insertAfter"
  /\ Call.node \in Removed(Pre)
  /\ ~Call.threw
  /\ Call.node \notin Linked(Cur, Sentinels(Cur, 1))

----------------------------------------------------------------------------
(* Accessors and search *)

\* C17: on a non-empty list first() and last() return the values of the
\* first and last real node and firstNode() and lastNode() return those
\* nodes (so first() is firstNode().value and last() is lastNode().value);
\* on an empty list all four return undefined, never a sentinel.
C17_Accessors ==
  Call.name \in {"first", "last", "firstNode", "lastNode"} =>
    LET l == Call.list
        c == Chain(Pre, l)
        v == Contents(Pre, l)
    IN /\ ~Call.threw
       /\ Call.retNode \notin Sentinels(Cur, l)
       /\ c = <<>> => Call.retNode = Undefined /\ Call.retValue = "undefined"
       /\ c # <<>> =>
            /\ Call.name = "firstNode" => Call.retNode = c[1]
            /\ Call.name = "lastNode" => Call.retNode = c[Len(c)]
            /\ Call.name = "first" =>
                 /\ Call.retValue = v[1]
                 /\ Call.retValue = heap[firstNode(Cur, l).retNode].value
            /\ Call.name = "last" =>
                 /\ Call.retValue = v[Len(v)]
                 /\ Call.retValue = heap[lastNode(Cur, l).retNode].value

C17_Witness ==
  /\ Call.name = "last"
  /\ Contents(Cur, 1) = <<"A", "A", "B">>
  /\ Call.retValue = "B"

\* lastNode on a list that was emptied
C17_WitnessEmpty ==
  /\ Call.name = "lastNode"
  /\ Allocated > 0
  /\ Chain(Cur, 1) = <<>>
  /\ Call.retNode = Undefined

\* the positions of the list whose value the callback p accepts
Matches(st, l, p) ==
  {i \in 1..Len(Contents(st, l)) : Callback(p, Contents(st, l)[i])}

Min(S) == CHOOSE i \in S : \A j \in S : i <= j

\* C18: find(predicate) returns the first node, in front-to-back order,
\* whose value the predicate accepts, wherever it is, and undefined when no
\* value matches or the list is empty.
C18_FindFirstMatch ==
  Call.name = "find" =>
    LET l == Call.list
        m == Matches(Pre, l, Call.pred)
    IN /\ ~Call.threw
       /\ m = {} => Call.retNode = Undefined
       /\ m # {} => Call.retNode = Chain(Pre, l)[Min(m)]

C18_Witness ==
  /\ Call.name = "find"
  /\ Call.pred = "isA"
  /\ Contents(Cur, 1) = <<"B", "A", "A">>
  /\ Call.retNode = Chain(Cur, 1)[2]

\* C19: find calls the predicate on the values in list order, once per
\* node, and on no node after the first one it accepts: with the first
\* match at position k it is called exactly k times, on the first k values,
\* and with no match once on every value.
C19_FindShortCircuit ==
  Call.name = "find" =>
    LET l == Call.list
        v == Contents(Pre, l)
        m == Matches(Pre, l, Call.pred)
    IN /\ m = {} => Call.calls = v
       /\ m # {} => Call.calls = SubSeq(v, 1, Min(m))

C19_Witness ==
  /\ Call.name = "find"
  /\ Call.pred = "isB"
  /\ Contents(Cur, 1) = <<"A", "B", "A">>
  /\ Call.calls = <<"A", "B">>

----------------------------------------------------------------------------
(* Misuse *)

\* C20: insertAfter(undefined, v), insertBefore(undefined, v) and
\* remove(undefined) each throw, and leave the list with the contents and
\* length it had, head.prev == null and tail.next == null.
C20_UndefinedHandleThrows ==
  (Call.name \in {"insertAfter", "insertBefore", "remove"}
     /\ Call.node = Undefined) =>
    LET l == Call.list
    IN /\ Call.threw
       /\ Contents(Cur, l) = Contents(Pre, l)
       /\ Chain(Cur, l) = Chain(Pre, l)
       /\ lists[l].length = Pre.lists[l].length
       /\ SentinelsIntact(Cur, l)

C20_Witness ==
  /\ Call.name = "remove"
  /\ Call.node = Undefined
  /\ Call.threw
  /\ Contents(Cur, 1) = <<"A", "B">>
  /\ lists[1].length = 2

C20_WitnessInsert ==
  /\ Call.name \in {"insertAfter", "insertBefore"}
  /\ Call.node = Undefined
  /\ Call.threw
  /\ Contents(Cur, 1) = <<>>
  /\ lists[1].length = 0

\* C21: remove, insertAfter or insertBefore called with a node that was
\* already removed from the list throws, and the failed call leaves the
\* list's chain, contents and length as they were.  In the code the first
\* insertAfter(removed, v) stores the new node in removed.next before it
\* throws, so the second one finds a successor, returns normally and
\* increments length.
C21_RemovedHandleThrows ==
  (Call.name \in {"insertAfter", "insertBefore", "remove"}
     /\ Call.node \in Removed(Pre)) =>
    LET l == Call.list
    IN /\ Call.threw
       /\ Chain(Cur, l) = Chain(Pre, l)
       /\ Contents(Cur, l) = Contents(Pre, l)
       /\ lists[l].length = Pre.lists[l].length

\* C22: whenever insertAfter, insertBefore or remove throws, whatever the
\* handle was, the list's length and the prev and next links of its
\* sentinels and of its live nodes are what they were before the call.  In
\* the code insertAfter(list.tail, v) has set tail.next when it throws, and
\* remove(list.tail) has cleared the last node's next.
C22_FailuresAtomic ==
  (Call.name \in {"insertAfter", "insertBefore", "remove"} /\ Call.threw) =>
    LET l == Call.list
    IN /\ lists[l].length = Pre.lists[l].length
       /\ \A n \in (Sentinels(Pre, l) \cup Range(Chain(Pre, l)))
                  \cap (1..Len(Pre.heap)) :
            /\ heap[n].prev = Pre.heap[n].prev
            /\ heap[n].next = Pre.heap[n].next

----------------------------------------------------------------------------
(* Complete traversals of an unmodified list *)

\* the values of the nodes of s
ValuesOf(st, s) == [i \in 1..Len(s) |-> st.heap[s[i]].value]

\* C23: nodes(), run to completion on an unmodified list, ends normally and
\* yields every real node exactly once, from the node after head to the
\* node before tail, each one the next of the one before, never a sentinel;
\* the values of the yielded nodes are the list's contents, and on an empty
\* list nothing is yielded.
C23_NodesForward ==
  \A l \in Lists :
    (Call.name = "nodes" /\ Call.list = l) =>
      LET s == Call.nodesOut
      IN /\ ~Call.threw
         /\ Len(s) = lists[l].length
         /\ Cardinality(Range(s)) = Len(s)
         /\ Range(s) = RealNodes(Cur, l)
         /\ Range(s) \cap Sentinels(Cur, l) = {}
         /\ \A i \in 1..(Len(s) - 1) : heap[s[i]].next = s[i + 1]
         /\ s # <<>> => /\ heap[lists[l].head].next = s[1]
                        /\ heap[s[Len(s)]].next = lists[l].tail
         /\ ValuesOf(Cur, s) = Contents(Cur, l)
         /\ lists[l].length = 0 => s = <<>>

C23_Witness ==
  /\ Call.name = "nodes"
  /\ ~Call.threw
  /\ Len(Call.nodesOut) = 3
  /\ ValuesOf(Cur, Call.nodesOut) = <<"A", "B", "A">>

C23_WitnessEmpty ==
  /\ Call.name = "nodes"
  /\ Pre.heap # <<>>
  /\ lists[1].length = 0
  /\ Call.nodesOut = <<>>

\* C24: nodesReversed(), run to completion on an unmodified list, ends
\* normally and yields every real node exactly once from last to first,
\* each one the prev of the one before: the reverse of what nodes() yields;
\* on an empty list nothing is yielded.
C24_NodesReversed ==
  \A l \in Lists :
    (Call.name = "nodesReversed" /\ Call.list = l) =>
      LET s == Call.nodesOut
      IN /\ ~Call.threw
         /\ s = Reverse(nodes(Cur, l).nodes)
         /\ Len(s) = lists[l].length
         /\ Cardinality(Range(s)) = Len(s)
         /\ Range(s) = RealNodes(Cur, l)
         /\ \A i \in 1..(Len(s) - 1) : heap[s[i]].prev = s[i + 1]
         /\ s # <<>> => /\ heap[lists[l].tail].prev = s[1]
                        /\ heap[s[Len(s)]].prev = lists[l].head
         /\ lists[l].length = 0 => s = <<>>

C24_Witness ==
  /\ Call.name = "nodesReversed"
  /\ ~Call.threw
  /\ Len(Call.nodesOut) = 3
  /\ ValuesOf(Cur, Call.nodesOut) = <<"B", "A", "A">>
  /\ Contents(Cur, 1) = <<"A", "A", "B">>

C24_WitnessEmpty ==
  /\ Call.name = "nodesReversed"
  /\ Pre.heap # <<>>
  /\ lists[1].length = 0
  /\ Call.nodesOut = <<>>

\* C25: default iteration over an unmodified list ends normally and yields
\* the values of the nodes nodes() yields, in the same order, `length` of
\* them.
C25_IterationProjectsNodes ==
  \A l \in Lists :
    (Call.name = "iterator" /\ Call.list = l) =>
      /\ ~Call.threw
      /\ Call.valuesOut = ValuesOf(Cur, nodes(Cur, l).nodes)
      /\ Len(Call.valuesOut) = lists[l].length

C25_Witness ==
  /\ Call.name = "iterator"
  /\ ~Call.threw
  /\ Call.valuesOut = <<"B", "A", "B">>
  /\ Len(nodes(Cur, 1).nodes) = 3

----------------------------------------------------------------------------
(* The documented methods slice, nodes(first, last), previousNode, nextNode *)

\* the part of chain s from node f (default: its first) up to but excluding
\* node t (default: through its end)
Between(s, f, t) ==
  SubSeq(s, IF f = Undefined THEN 1 ELSE IndexOf(s, f),
            IF t = Undefined THEN Len(s) ELSE IndexOf(s, t) - 1)

\* first is not behind last in chain s
InOrder(s, f, t) ==
  f = Undefined \/ t = Undefined \/ IndexOf(s, f) <= IndexOf(s, t)

\* C26: slice(firstNode, lastNode) returns a new list with the values from
\* firstNode (default: the first node) up to but excluding lastNode
\* (default: through the end), so slice() copies the list, slice(n) starts
\* at n and slice(n, n) is empty; the new list has nodes of its own and the
\* source list is unchanged.  class List has no slice: the call throws.
C26_Slice ==
  (Call.name = "slice" /\ InOrder(Chain(Pre, Call.list), Call.node, Call.upTo)) =>
    LET l == Call.list
        new == Len(lists)
    IN /\ ~Call.threw
       /\ Len(lists) = Len(Pre.lists) + 1
       /\ Contents(Cur, new)
            = ValuesOf(Pre, Between(Chain(Pre, l), Call.node, Call.upTo))
       /\ lists[new].length = Len(Contents(Cur, new))
       /\ Range(Chain(Cur, new)) \cap Range(Chain(Cur, l)) = {}
       /\ Chain(Cur, l) = Chain(Pre, l)
       /\ Contents(Cur, l) = Contents(Pre, l)
       /\ lists[l] = Pre.lists[l]

\* C27: nodes(first, last) yields the nodes from first (default: the first
\* real node) up to but excluding last (default: the tail sentinel), in
\* list order: nodes(x, x) yields nothing and nodes(x) starts at x.  The
\* code's nodes() takes no arguments and always walks the whole list.
C27_NodesBetween ==
  (Call.name = "nodes" /\ InOrder(Chain(Pre, Call.list), Call.node, Call.upTo)) =>
    /\ ~Call.threw
    /\ Call.nodesOut = Between(Chain(Pre, Call.list), Call.node, Call.upTo)

\* C28: previousNode(node) and nextNode(node), node a live node of the list,
\* return the real node before / after it, and undefined when that
\* neighbour is a sentinel or when node is undefined.  class List has
\* neither method: the call throws.
C28_Neighbours ==
  (Call.name \in {"previousNode", "nextNode"}) =>
    LET l == Call.list
        n == Call.node
        nb == IF n = Undefined THEN Undefined
              ELSE IF Call.name = "previousNode" THEN Pre.heap[n].prev
              ELSE Pre.heap[n].next
    IN /\ ~Call.threw
       /\ Call.retNode = IF nb \in Sentinels(Pre, l) THEN Undefined ELSE nb
       /\ Chain(Cur, l) = Chain(Pre, l)

----------------------------------------------------------------------------
(* Modification during a traversal *)

\* what a traversal of the list as it was when the traversal began yields
Expected ==
  IF gen.kind = "nodesReversed" THEN Reverse(gen.chain0) ELSE gen.chain0

\* the nodes removed since the traversal began
RemovedSince == Range(gen.chain0) \cap Removed(Cur)

\* C29: while a nodes(), default or nodesReversed() traversal is in
\* progress, removing nodes that were yielded before the most recently
\* yielded one does not disturb it: no step throws, the nodes yielded so far
\* are the first ones of the list as it was at the start, each once and in
\* order, and when the traversal has ended it has yielded all of them (for
\* default iteration: all their values).
C29_RemoveBehindCursor ==
  gen.kind # "none" =>
    /\ ~gen.threw
    /\ IsPrefix(gen.visited, Expected)
    /\ gen.kind = "iterator" => IsPrefix(gen.values, gen.contents0)
    /\ gen.g.pc = "done" =>
         /\ gen.visited = Expected
         /\ gen.kind = "iterator" => gen.values = gen.contents0
         /\ Range(Chain(Cur, gen.list)) = Range(gen.chain0) \ RemovedSince

C29_Witness ==
  /\ gen.kind = "nodes"
  /\ gen.g.pc = "done"
  /\ Len(gen.visited) = 3
  /\ RemovedSince = {gen.visited[1], gen.visited[2]}
  /\ Chain(Cur, 1) = <<gen.visited[3]>>

C29_WitnessReversed ==
  /\ gen.kind = "nodesReversed"
  /\ gen.g.pc = "done"
  /\ Len(gen.visited) = 3
  /\ RemovedSince = {gen.visited[1]}

C29_WitnessValues ==
  /\ gen.kind = "iterator"
  /\ gen.g.pc = "done"
  /\ gen.values = <<"A", "B", "A">>
  /\ RemovedSince # {}

----------------------------------------------------------------------------
(* Two lists *)

\* C30: with every handle passed only to the list that returned it, no node
\* is linked into the chains of two lists, and a call on one list leaves
\* every other list as it was: its length, its sentinels, the order of its
\* nodes and their links and values.
C30_ListsIsolated ==
  /\ \A a \in Lists : \A b \in Lists \ {a} :
       Linked(Cur, Sentinels(Cur, a)) \cap Linked(Cur, Sentinels(Cur, b)) = {}
  /\ \A b \in 1..Len(Pre.lists) :
       b # Call.list =>
         /\ lists[b] = Pre.lists[b]
         /\ Chain(Cur, b) = Chain(Pre, b)
         /\ Contents(Cur, b) = Contents(Pre, b)
         /\ \A n \in Sentinels(Pre, b) \cup Range(Chain(Pre, b)) :
              heap[n] = Pre.heap[n]

C30_Witness ==
  /\ Len(lists) = 2
  /\ Call.name = "insertAfter"
  /\ Call.list = 2
  /\ ~Call.threw
  /\ lists[1].length = 1
  /\ lists[2].length = 2
  /\ Pre.lists[2].length = 1

C30_WitnessRemove ==
  /\ Len(lists) = 2
  /\ Call.name = "remove"
  /\ Call.list = 1
  /\ lists[1].length = 0
  /\ lists[2].length = 2

----------------------------------------------------------------------------
(* Insertion at the sentinels *)

\* the program state and the returned node of an outcome
Result(r) == [heap |-> r.heap, lists |-> r.lists, retNode |-> r.retNode]

\* the last call gave what r gives from the same state
SameAs(r) ==
  /\ ~r.threw
  /\ ~Call.threw
  /\ Result(r) = [heap |-> heap, lists |-> lists, retNode |-> Call.retNode]

\* C32: insertAfter(list.head, v) gives the list and the returned node that
\* unshift(v) gives, and the returned node is the first node;
\* insertBefore(list.tail, v) gives what push(v) gives, the returned node
\* being the last node; and for a live node n, insertBefore(n, v) gives the
\* list insertAfter(n.prev, v) gives (so insertAfter(n, v) the list
\* insertBefore(n.next, v) gives), on every list state, the empty one
\* included.
C32_SentinelReferences ==
  LET l == Call.list
      n == Call.node
      v == Call.value
  IN /\ (Call.name = "insertAfter" /\ n = Pre.lists[l].head) =>
          /\ SameAs(unshift(Pre, l, v))
          /\ Call.retNode = firstNode(Cur, l).retNode
          /\ Contents(Cur, l) = <<v>> \o Contents(Pre, l)
     /\ (Call.name = "insertBefore" /\ n = Pre.lists[l].tail) =>
          /\ SameAs(push(Pre, l, v))
          /\ Call.retNode = lastNode(Cur, l).retNode
          /\ Contents(Cur, l) = Append(Contents(Pre, l), v)
     /\ Call.name = "insertBefore" =>
          SameAs(insertAfter(Pre, l, Pre.heap[n].prev, v))
     /\ Call.name = "insertAfter" =>
          SameAs(insertBefore(Pre, l, Pre.heap[n].next, v))

C32_Witness ==
  /\ Call.name = "insertAfter"
  /\ Call.node = lists[1].head
  /\ Pre.lists[1].length = 0
  /\ Contents(Cur, 1) = <<"A">>

C32_WitnessTail ==
  /\ Call.name = "insertBefore"
  /\ Call.node = lists[1].tail
  /\ Contents(Cur, 1) = <<"A", "B", "B">>

C32_WitnessInner ==
  /\ Call.name = "insertBefore"
  /\ Call.node \notin Sentinels(Cur, 1)
  /\ Pre.heap[Call.node].prev \notin Sentinels(Cur, 1)
  /\ Contents(Cur, 1) = <<"A", "B", "A">>

----------------------------------------------------------------------------
(* Termination *)

\* C33: on every list reached by calls with valid handles, a walk with no
\* call in between ends by itself: nodes(), nodesReversed() and default
\* iteration each return after yielding exactly `length` items, without
\* throwing, and find returns after at most `length` calls of the callback.
C33_TraversalsFinite ==
  /\ \A l \in Lists : \A kind \in Kinds :
       LET w == Drain(kind, Cur, l, NewGenerator, Fuel(Cur))
       IN /\ w.ended
          /\ ~w.threw
          /\ Len(w.nodes) + Len(w.values) = lists[l].length
  /\ \A l \in Lists : \A p \in Preds :
       LET r == find(Cur, l, p)
       IN /\ ~r.threw
          /\ Len(r.calls) <= lists[l].length
          /\ r.retNode = Undefined => Len(r.calls) = lists[l].length
  /\ Call.name \in Kinds =>
       Len(Call.nodesOut) + Len(Call.valuesOut) = lists[Call.list].length
  /\ Call.name = "find" => Len(Call.calls) <= lists[Call.list].length

C33_Witness ==
  /\ Call.name = "find"
  /\ Call.pred = "never"
  /\ lists[1].length = 3
  /\ Len(Call.calls) = 3
  /\ Call.retNode = Undefined

C33_WitnessWalk ==
  /\ Call.name = "nodesReversed"
  /\ lists[1].length = 2
  /\ Len(Call.nodesOut) = 2
  /\ Removed(Cur) # {}

----------------------------------------------------------------------------
(* Handles *)

\* the node the last call took out of its list, if it took one out
TakenOut ==
  IF Call.name \in Removes /\ ~Call.threw /\ Pre.lists[Call.list].length > 0
  THEN {RemovedBy(Call, Pre)}
  ELSE {}

\* the elements of s that are in S, in the order of s
Only(s, S) == SelectSeq(s, LAMBDA x : x \in S)

\* n can be passed to insertAfter, insertBefore and remove of list l, and
\* each does to n what it does to a live node
Usable(st, l, n) ==
  LET ch == Chain(st, l)
      i == IndexOf(ch, n)
      new == Len(st.heap) + 1
  IN /\ \A v \in Values :
          LET a == insertAfter(st, l, n, v)
              b == insertBefore(st, l, n, v)
          IN /\ ~a.threw /\ Chain(StateOf(a), l) = InsertAt(ch, i, new)
             /\ ~b.threw /\ Chain(StateOf(b), l) = InsertAt(ch, i - 1, new)
     /\ LET r == remove(st, l, n)
        IN ~r.threw /\ Chain(StateOf(r), l) = RemoveAt(ch, i)

\* C34: a handle a method returned is a live node, and every live node
\* stays the same live node with the same value, in the same order among
\* the others, and usable for insertAfter, insertBefore and remove, through
\* every call that inserts or removes another node; only the call that
\* removes the node itself (remove of it, or the pop or shift that hits it)
\* changes it: the node then leaves the list and its value becomes null.
C34_HandleStability ==
  Pre.heap # <<>> =>
    LET l == Call.list
        kept == Range(Chain(Pre, l)) \ TakenOut
    IN /\ \A n \in kept :
            /\ n \in Range(Chain(Cur, l))
            /\ heap[n].value = Pre.heap[n].value
            /\ Usable(Cur, l, n)
       /\ Only(Chain(Cur, l), kept) = Only(Chain(Pre, l), kept)
       /\ \A n \in TakenOut :
            /\ n \notin Range(Chain(Cur, l))
            /\ heap[n].value = "null"
       /\ (Call.name \in Inserts \cup {"find", "firstNode", "lastNode"}
             /\ Call.retNode # Undefined) =>
            Call.retNode \in Range(Chain(Cur, l))

C34_Witness ==
  /\ Call.name = "remove"
  /\ Len(Chain(Pre, 1)) = 3
  /\ Call.node = Chain(Pre, 1)[2]
  /\ Chain(Cur, 1) = <<Chain(Pre, 1)[1], Chain(Pre, 1)[3]>>
  /\ ValuesOf(Cur, Chain(Cur, 1)) = <<"A", "B">>

C34_WitnessInsert ==
  /\ Call.name = "insertBefore"
  /\ Len(Chain(Pre, 1)) = 1
  /\ Call.node = Chain(Pre, 1)[1]
  /\ Chain(Cur, 1) = <<Call.retNode, Call.node>>
  /\ Removed(Cur) # {}

----------------------------------------------------------------------------
(* Round trip of insertion and removal *)

\* the last call removed the node the call before it had inserted with
\* insertAfter or insertBefore
RemovedTheInserted ==
  /\ Len(hist) = 2
  /\ hist[2].call.name \in {"insertAfter", "insertBefore"}
  /\ ~hist[2].call.threw
  /\ Call.name = "remove"
  /\ Call.list = hist[2].call.list
  /\ Call.node = hist[2].call.retNode

\* C35: remove(insertAfter(r, v)) and remove(insertBefore(r, v)), r any
\* valid reference node, restore the list exactly: the list object with its
\* length and sentinels, the nodes in their order, and every node that was
\* there before the insertion with its prev, next and value.
C35_InsertRemoveRoundTrip ==
  RemovedTheInserted =>
    LET l == Call.list
        before == [heap |-> hist[2].heap, lists |-> hist[2].lists]
    IN /\ ~Call.threw
       /\ lists = before.lists
       /\ \A n \in 1..Len(before.heap) : heap[n] = before.heap[n]
       /\ Chain(Cur, l) = Chain(before, l)
       /\ Contents(Cur, l) = Contents(before, l)
       /\ Call.node \in Removed(Cur)

C35_Witness ==
  /\ RemovedTheInserted
  /\ hist[2].call.name = "insertAfter"
  /\ hist[2].call.node \notin Sentinels(Cur, 1)
  /\ heap[hist[2].call.node].next # lists[1].tail
  /\ Contents(Cur, 1) = <<"A", "B">>

C35_WitnessBefore ==
  /\ RemovedTheInserted
  /\ hist[2].call.name = "insertBefore"
  /\ hist[2].call.node = lists[1].tail
  /\ lists[1].length = 0

C35_WitnessHead ==
  /\ RemovedTheInserted
  /\ hist[2].call.name = "insertAfter"
  /\ hist[2].call.node = lists[1].head
  /\ Contents(Cur, 1) = <<"B", "A">>

----------------------------------------------------------------------------
(* Reading *)

ReadOnly ==
  {"first", "last", "firstNode", "lastNode", "find", "nodes",
   "nodesReversed", "iterator"}

\* the step is a call of a reading method, the making of a generator, or
\* one next() of a generator
ReadStep ==
  \/ hist' # hist /\ hist'[1].call.name \in ReadOnly
  \/ gen' # gen

\* C36: first, last, firstNode, lastNode, find, complete walks of nodes(),
\* nodesReversed() and default iteration, and every single step of such a
\* walk (so every partial run), leave the list object with its length and
\* every node with its prev, next and value as they were.
C36_ReadOnly == [][ReadStep => (heap' = heap /\ lists' = lists)]_vars

C36_Witness ==
  /\ gen.kind = "nodesReversed"
  /\ gen.g.pc = "yielded"
  /\ Len(gen.visited) = 2
  /\ lists[1].length = 3
  /\ Len(gen.chain0) = 3

C36_WitnessCall ==
  /\ Call.name = "first"
  /\ Call.retValue = "B"
  /\ Contents(Cur, 1) = <<"B", "A">>
  /\ Contents(Pre, 1) = <<"B", "A">>

----------------------------------------------------------------------------
(* Two lists, and calls on one list with a handle of the other *)

\* the list is as its own calls leave it: both walks end, the backward walk
\* is the reverse of the forward walk, and length is the number of nodes
Consistent(st, l) ==
  LET f == nodes(st, l)
      b == nodesReversed(st, l)
  IN /\ f.ended /\ ~f.threw
     /\ b.ended /\ ~b.threw
     /\ b.nodes = Reverse(f.nodes)
     /\ Len(f.nodes) = st.lists[l].length

\* the real nodes of the lists other than a
ForeignHandles(a) ==
  (UNION {Live(b) : b \in Lists \ {a}}) \cap ((1..Len(heap)) \ AllSentinels)

\* the lists are built and filled while each is as its own calls leave it;
\* calls with a handle of another list come at any time
NextForeignHandle ==
  \/ (\A l \in Lists : Consistent(Cur, l)) /\ \E it \in Iterables : Construct(it)
  \/ \E l \in Lists, v \in Values : Consistent(Cur, l) /\ Push(l, v)
  \/ \E l \in Lists : Consistent(Cur, l) /\ Shift(l)
  \/ \E a \in Lists : \E n \in ForeignHandles(a) : Remove(a, n)
  \/ \E a \in Lists, v \in Values :
       \E n \in ForeignHandles(a) : InsertAfter(a, n, v)
  \/ \E a \in Lists, v \in Values :
       \E n \in ForeignHandles(a) : InsertBefore(a, n, v)

SpecForeignHandle == Init /\ [][NextForeignHandle]_vars

----------------------------------------------------------------------------
(* Insertion during a traversal *)

\* what the traversal is to yield in all: the nodes of the list as it was at
\* the start and the nodes inserted ahead since, in list order
Due == Only(Chain(Cur, gen.list), Range(gen.chain0) \cup gen.ahead)

\* C31: a nodes() or default traversal follows the live list: a value pushed
\* or inserted anywhere after the most recently yielded node while the
\* traversal is in progress is yielded by it, in list order, before it
\* ends; a value inserted before the most recently yielded node is never
\* yielded by it.
C31_LiveTraversal ==
  gen.kind \in {"nodes", "iterator"} =>
    /\ ~gen.threw
    /\ IsPrefix(gen.visited, Due)
    /\ gen.behind \cap Range(gen.visited) = {}
    /\ gen.kind = "iterator" => gen.values = ValuesOf(Cur, gen.visited)
    /\ gen.g.pc = "done" =>
         /\ gen.visited = Due
         /\ gen.ahead \subseteq Range(gen.visited)

C31_Witness ==
  /\ gen.kind = "nodes"
  /\ gen.g.pc = "done"
  /\ Cardinality(gen.ahead) = 1
  /\ Cardinality(gen.behind) = 1
  /\ Len(gen.chain0) = 1
  /\ Len(gen.visited) = 2
  /\ lists[1].length = 3

C31_WitnessValues ==
  /\ gen.kind = "iterator"
  /\ gen.g.pc = "done"
  /\ gen.contents0 = <<"A">>
  /\ gen.values = <<"A", "B", "B">>
  /\ Cardinality(gen.ahead) = 2

----------------------------------------------------------------------------
(* Removal of the node a traversal stands on *)

\* the yields at which the traversal stood on a node that has been removed
\* since
LostAt ==
  {i \in 1..Len(gen.visited) :
     gen.visited[i] # Null /\ gen.visited[i] \in Removed(Cur)}

\* C37: if the node most recently yielded by an in-progress nodes()
\* traversal is removed before the traversal resumes, the traversal does not
\* go on to that node's former successor and never ends normally at the tail
\* sentinel: its next step yields null in place of a node and the step after
\* that throws (the default traversal throws on its next step); the list
\* keeps the other nodes in order, its length is their number, and the
\* backward walk agrees with the forward walk.
C37_CursorRemoved ==
  \A i \in LostAt :
    LET l == gen.list
        f == nodes(Cur, l)
        b == nodesReversed(Cur, l)
    IN /\ gen.visited[i] = gen.chain0[i]
       /\ \A j \in (i + 1)..Len(gen.chain0) :
            gen.chain0[j] \notin Range(gen.visited)
       /\ gen.g.current # lists[l].tail
       /\ gen.g.pc = "done" => gen.threw
       /\ gen.kind = "nodes" =>
            /\ Len(gen.visited) <= i + 1
            /\ Len(gen.visited) = i + 1 => gen.visited[i + 1] = Null
            /\ gen.g.pc = "done" => Len(gen.visited) = i + 1
       /\ gen.kind = "iterator" =>
            /\ Len(gen.visited) = i
            /\ gen.values = SubSeq(gen.contents0, 1, i)
       /\ f.ended /\ ~f.threw /\ b.ended /\ ~b.threw
       /\ f.nodes = Only(gen.chain0, Range(gen.chain0) \ {gen.chain0[i]})
       /\ b.nodes = Reverse(f.nodes)
       /\ lists[l].length = Len(f.nodes)
       /\ SentinelsIntact(Cur, l)

C37_Witness ==
  /\ gen.kind = "nodes"
  /\ gen.g.pc = "done"
  /\ gen.threw
  /\ Len(gen.chain0) = 3
  /\ gen.visited = <<gen.chain0[1], gen.chain0[2], Null>>
  /\ Chain(Cur, 1) = <<gen.chain0[1], gen.chain0[3]>>

C37_WitnessValues ==
  /\ gen.kind = "iterator"
  /\ gen.g.pc = "done"
  /\ gen.threw
  /\ gen.contents0 = <<"A", "B", "A">>
  /\ gen.values = <<"A">>
  /\ Contents(Cur, 1) = <<"B", "A">>

----------------------------------------------------------------------------
(* Handles of another list *)

\* the list, other than the one called, whose chain holds the handle of the
\* last call; 0 when there is none
ForeignOwner ==
  LET owners == {b \in 1..Len(Pre.lists) :
                   /\ b # Call.list
                   /\ Call.node \in Range(Chain(Pre, b)) \ {Null}
                   /\ Call.node \notin Range(Chain(Pre, Call.list))}
  IN IF Call.name \in {"remove", "insertAfter", "insertBefore"}
        /\ owners # {}
     THEN CHOOSE b \in owners : TRUE
     ELSE 0

\* C38: A.remove(n), A.insertAfter(n, v) or A.insertBefore(n, v) with n a
\* live node of another list B, both lists being consistent before the call,
\* does not throw; it changes B's chain by the one node and leaves A's as it
\* was, and it adjusts A.length while B.length stays; so afterwards length
\* is the number of reachable nodes in neither list.
C38_ForeignUndetected ==
  (/\ ForeignOwner # 0
   /\ Consistent(Pre, Call.list)
   /\ Consistent(Pre, ForeignOwner)) =>
    LET a == Call.list
        b == ForeignOwner
        d == IF Call.name = "remove" THEN -1 ELSE 1
    IN /\ ~Call.threw
       /\ Chain(Cur, b) # Chain(Pre, b)
       /\ Len(Chain(Cur, b)) = Len(Chain(Pre, b)) + d
       /\ Chain(Cur, a) = Chain(Pre, a)
       /\ lists[a].length = Pre.lists[a].length + d
       /\ lists[b].length = Pre.lists[b].length
       /\ Len(Chain(Cur, a)) # lists[a].length
       /\ Len(Chain(Cur, b)) # lists[b].length
       /\ ~Consistent(Cur, a)
       /\ ~Consistent(Cur, b)

C38_Witness ==
  /\ ForeignOwner = 2
  /\ Call.name = "remove"
  /\ Consistent(Pre, 1)
  /\ Consistent(Pre, 2)
  /\ Pre.lists[1].length = 1
  /\ Pre.lists[2].length = 2
  /\ lists[1].length = 0
  /\ Len(Chain(Cur, 1)) = 1
  /\ lists[2].length = 2
  /\ Len(Chain(Cur, 2)) = 1

C38_WitnessInsert ==
  /\ ForeignOwner = 1
  /\ Call.name = "insertBefore"
  /\ Consistent(Pre, 1)
  /\ Consistent(Pre, 2)
  /\ lists[2].length = 2
  /\ Len(Chain(Cur, 2)) = 1
  /\ lists[1].length = 1
  /\ Len(Chain(Cur, 1)) = 2

\* a second call with a handle of the other list finds the lists as the
\* first one left them, and can make length the number of nodes again
C38_WitnessRepeated ==
  /\ ForeignOwner # 0
  /\ ~Consistent(Pre, Call.list)
  /\ ~Consistent(Pre, ForeignOwner)
  /\ ~Call.threw
  /\ Consistent(Cur, Call.list)
  /\ Consistent(Cur, ForeignOwner)

====
